---- MODULE Spec2Model ----
(***************************************************************************)
(* Model of src/main.py: ProspektmaschineScraper.                          *)
(*                                                                         *)
(* Python strings are modelled as sequences of one-character strings, so   *)
(* that the regular expressions, str.replace, str.strip and the strptime / *)
(* strftime round trip are computed character by character.                *)
(* A page is the sequence of its ".brochure-thumb" tiles in document       *)
(* order; a tile records which of the nodes and attributes that parse_page *)
(* selects are present, and their text.                                    *)
(***************************************************************************)
EXTENDS Integers, Sequences, FiniteSets

VARIABLES pc, page, html, idx, now, leaflets, run_leaflets, file, err,
          fetches, saves

vars == <<pc, page, html, idx, now, leaflets, run_leaflets, file, err,
          fetches, saves>>

----------------------------------------------------------------------------
(* Bounds *)

\* most tiles of a page built from the structural tiles
MaxTiles == 2
\* most pieces a validity text is concatenated from
MaxParts == 3

----------------------------------------------------------------------------
(* Strings *)

Unknown == <<"U","n","k","n","o","w","n">>
LogoPrefix == <<"L","o","g","o"," ">>

Digits == {"0","1","2","3","4","5","6","7","8","9"}
DigitChars == <<"0","1","2","3","4","5","6","7","8","9">>
Letters ==
  {"a","b","c","d","e","f","g","h","i","j","k","l","m","n","o","p","q","r",
   "s","t","u","v","w","x","y","z","A","B","C","D","E","F","G","H","I","J",
   "K","L","M","N","O","P","Q","R","S","T","U","V","W","X","Y","Z"}

\* \d and \w of the re module, restricted to ASCII text
IsDigit(c) == c \in Digits
IsWord(c) == c \in Digits \cup Letters \cup {"_"}

DigitVal(c) == (CHOOSE k \in 1..10 : DigitChars[k] = c) - 1

\* s[i..] starts with p
StartsAt(s, i, p) ==
  /\ i >= 1
  /\ i + Len(p) - 1 <= Len(s)
  /\ \A k \in 1..Len(p) : s[i + k - 1] = p[k]

\* str.strip(): leading and trailing whitespace removed
Strip(s) ==
  LET ix == {i \in 1..Len(s) : s[i] # " "}
      lo == CHOOSE i \in ix : \A j \in ix : i <= j
      hi == CHOOSE i \in ix : \A j \in ix : j <= i
  IN  IF ix = {} THEN <<>> ELSE SubSeq(s, lo, hi)

RECURSIVE ReplaceFrom(_, _, _)
\* str.replace(old, ""), scanning s from position i: every non-overlapping
\* occurrence of old, left to right, is removed
ReplaceFrom(s, i, old) ==
  IF i > Len(s) THEN <<>>
  ELSE IF StartsAt(s, i, old) THEN ReplaceFrom(s, i + Len(old), old)
  ELSE <<s[i]>> \o ReplaceFrom(s, i + 1, old)

Replace(s, old) == ReplaceFrom(s, 1, old)

----------------------------------------------------------------------------
(* format_date: datetime.strptime(date_str, "%d.%m.%Y").strftime("%Y-%m-%d") *)

IsLeap(y) == (y % 4 = 0 /\ y % 100 # 0) \/ y % 400 = 0

DaysInMonth(m, y) ==
  IF m = 2 THEN (IF IsLeap(y) THEN 29 ELSE 28)
  ELSE IF m \in {4, 6, 9, 11} THEN 30 ELSE 31

\* %d of strptime: 3[0-1] | [1-2]\d | 0[1-9] | [1-9] | " "[1-9]; -1 if no match
DayField(f) ==
  IF Len(f) = 1 /\ IsDigit(f[1]) /\ f[1] # "0" THEN DigitVal(f[1])
  ELSE IF Len(f) = 2 /\ f[1] = " " /\ IsDigit(f[2]) /\ f[2] # "0"
    THEN DigitVal(f[2])
  ELSE IF Len(f) = 2 /\ IsDigit(f[1]) /\ IsDigit(f[2])
          /\ 10 * DigitVal(f[1]) + DigitVal(f[2]) \in 1..31
    THEN 10 * DigitVal(f[1]) + DigitVal(f[2])
  ELSE -1

\* %m of strptime: 1[0-2] | 0[1-9] | [1-9]; -1 if no match
MonthField(f) ==
  IF Len(f) = 1 /\ IsDigit(f[1]) /\ f[1] # "0" THEN DigitVal(f[1])
  ELSE IF Len(f) = 2 /\ IsDigit(f[1]) /\ IsDigit(f[2])
          /\ 10 * DigitVal(f[1]) + DigitVal(f[2]) \in 1..12
    THEN 10 * DigitVal(f[1]) + DigitVal(f[2])
  ELSE -1

\* %Y of strptime: \d\d\d\d; -1 if no match
YearField(f) ==
  IF Len(f) = 4 /\ \A k \in 1..4 : IsDigit(f[k])
  THEN 1000 * DigitVal(f[1]) + 100 * DigitVal(f[2])
       + 10 * DigitVal(f[3]) + DigitVal(f[4])
  ELSE -1

TwoDigits(n) == <<DigitChars[(n \div 10) + 1], DigitChars[(n % 10) + 1]>>

\* (the years of the model's texts have four digits; how strftime pads a
\* year below 1000 is left to the C library)
FourDigits(n) ==
  <<DigitChars[(n \div 1000) + 1], DigitChars[((n \div 100) % 10) + 1],
    DigitChars[((n \div 10) % 10) + 1], DigitChars[(n % 10) + 1]>>

\* the (day, month, year) strptime reads from date_str, or <<-1, -1, -1>>
\* when it raises ValueError: the string must be day "." month "." year with
\* nothing left over, and the three must name a day of the calendar
Strptime(date_str) ==
  LET dots == {i \in 1..Len(date_str) : date_str[i] = "."}
      d1 == CHOOSE i \in dots : \A j \in dots : i <= j
      d2 == CHOOSE i \in dots : \A j \in dots : j <= i
      day == DayField(SubSeq(date_str, 1, d1 - 1))
      month == MonthField(SubSeq(date_str, d1 + 1, d2 - 1))
      year == YearField(SubSeq(date_str, d2 + 1, Len(date_str)))
  IN  IF Cardinality(dots) # 2 THEN <<-1, -1, -1>>
      ELSE IF day = -1 \/ month = -1 \/ year < 1 THEN <<-1, -1, -1>>
      ELSE IF day > DaysInMonth(month, year) THEN <<-1, -1, -1>>
      ELSE <<day, month, year>>

FormatDate(date_str) ==
  LET dt == Strptime(date_str)
  IN  IF dt[1] = -1 THEN Unknown
      ELSE FourDigits(dt[3]) \o <<"-">> \o TwoDigits(dt[2]) \o <<"-">>
           \o TwoDigits(dt[1])

----------------------------------------------------------------------------
(* The two regular expressions of parse_page *)

\* the pattern with its dots left unescaped: \d{2}.\d{2}.\d{4}
DateShapeAnyDot(t, i) ==
  /\ i >= 1
  /\ i + 9 <= Len(t)
  /\ \A k \in {0, 1, 3, 4, 6, 7, 8, 9} : IsDigit(t[i + k])

\* \d{2}\.\d{2}\.\d{4} matches t at position i
DateShapeAt(t, i) ==
  /\ i >= 1
  /\ i + 9 <= Len(t)
  /\ \A k \in {0, 1, 3, 4, 6, 7, 8, 9} : IsDigit(t[i + k])
  /\ t[i + 2] = "."
  /\ t[i + 5] = "."

\* (\d{2}\.\d{2}\.\d{4}) - (\d{2}\.\d{2}\.\d{4}) matches t at position i
RangeAt(t, i) ==
  /\ DateShapeAt(t, i)
  /\ StartsAt(t, i + 10, <<" ", "-", " ">>)
  /\ DateShapeAt(t, i + 13)

\* "von \w+ " matches t at position i and ends right before position j
LeadInAt(t, i, j) ==
  /\ StartsAt(t, i, <<"v", "o", "n", " ">>)
  /\ j - 1 <= Len(t)
  /\ j - 1 >= i + 5
  /\ t[j - 1] = " "
  /\ \A k \in (i + 4)..(j - 2) : IsWord(t[k])

\* (?:von \w+ )?(\d{2}\.\d{2}\.\d{4}) anchored at position i: the position of
\* group 1, or 0 if there is no match at i. The optional group is greedy, so
\* the lead-in is tried first and the bare token second.
SingleAt(t, i) ==
  LET js == {j \in (i + 6)..Len(t) : LeadInAt(t, i, j) /\ DateShapeAt(t, j)}
  IN  IF js # {} THEN CHOOSE j \in js : \A k \in js : k <= j
      ELSE IF DateShapeAt(t, i) THEN i
      ELSE 0

Token(t, i) == SubSeq(t, i, i + 9)

\* re.search: the match at the leftmost position, None (found = FALSE) if none
SearchRange(t) ==
  LET ps == {i \in 1..Len(t) : RangeAt(t, i)}
      p == CHOOSE i \in ps : \A j \in ps : i <= j
  IN  IF ps = {} THEN [found |-> FALSE, g1 |-> <<>>, g2 |-> <<>>]
      ELSE [found |-> TRUE, g1 |-> Token(t, p), g2 |-> Token(t, p + 13)]

SearchSingle(t) ==
  LET ps == {i \in 1..Len(t) : SingleAt(t, i) # 0}
      p == CHOOSE i \in ps : \A j \in ps : i <= j
  IN  IF ps = {} THEN [found |-> FALSE, g1 |-> <<>>]
      ELSE [found |-> TRUE, g1 |-> Token(t, SingleAt(t, p))]

\* (valid_from, valid_to) of parse_page for one tile's date_text
Validity(date_text) ==
  LET match_range == SearchRange(date_text)
      match_single == SearchSingle(date_text)
  IN  IF match_range.found THEN <<match_range.g1, match_range.g2>>
      ELSE IF match_single.found THEN <<match_single.g1, Unknown>>
      ELSE <<Unknown, Unknown>>

----------------------------------------------------------------------------
(* Tiles: what parse_page reads from one ".brochure-thumb" element *)

\* an attribute or a node's text that may be missing
Some(v) == [has |-> TRUE, val |-> v]
None == [has |-> FALSE, val |-> <<>>]

\* title_tag.get_text(strip=True) if title_tag else "Unknown"
Title(item) ==
  IF item.title.has THEN Strip(item.title.val) ELSE Unknown

\* the lookup with the two attributes swapped: data-src first, src second
ThumbnailDataSrcFirst(item) ==
  IF item.img.node
  THEN IF item.img.dsrc.has /\ item.img.dsrc.val # <<>> THEN item.img.dsrc.val
       ELSE IF item.img.src.has THEN item.img.src.val
       ELSE <<>>
  ELSE <<>>

\* img_tag.get("src") or img_tag.get("data-src", "") if img_tag else ""
\* (None and "" are both falsy, so an empty src falls through to data-src)
Thumbnail(item) ==
  IF item.img.node
  THEN IF item.img.src.has /\ item.img.src.val # <<>> THEN item.img.src.val
       ELSE IF item.img.dsrc.has THEN item.img.dsrc.val
       ELSE <<>>
  ELSE <<>>

\* shop_tag["alt"] raises KeyError when the logo image has no alt attribute
RaisesKeyError(item) == item.logo.node /\ ~item.logo.alt.has

\* shop_tag["alt"].replace("Logo ", "") if shop_tag else "Unknown"
ShopName(item) ==
  IF item.logo.node THEN Replace(item.logo.alt.val, LogoPrefix) ELSE Unknown

\* the small.hidden-sm node, or else the small.visible-sm node, or else ""
DateText(item) ==
  IF item.hidden.has THEN Strip(item.hidden.val)
  ELSE IF item.visible.has THEN Strip(item.visible.val)
  ELSE <<>>

\* the dictionary parse_page appends for one tile
Entry(item, t) ==
  [title |-> Title(item),
   thumbnail |-> Thumbnail(item),
   shop_name |-> ShopName(item),
   valid_from |-> Validity(DateText(item))[1],
   valid_to |-> Validity(DateText(item))[2],
   parsed_time |-> t]

----------------------------------------------------------------------------
(* The pages the model is run on *)

D1 == <<"0","1",".","0","1",".","2","0","2","5">>
D2 == <<"1","5",".","0","1",".","2","0","2","5">>
DBad == <<"3","2",".","1","3",".","2","0","2","5">>
Slashed == <<"1","5","/","0","1","/","2","0","2","5">>
Sep == <<" ","-"," ">>
Von == <<"v","o","n"," ","M","o","n","t","a","g"," ">>
Words == <<"A","n","g","e","b","o","t","e">>

Pieces == {D1, D2, DBad, Slashed, Sep, Von}

RECURSIVE TextsUpTo(_)
\* the texts concatenated from at most n pieces
TextsUpTo(n) ==
  IF n = 0 THEN {<<>>}
  ELSE LET prev == TextsUpTo(n - 1)
       IN  prev \cup {x \o p : x \in prev, p \in Pieces}

ImgA == <<"a",".","j","p","g">>
ImgB == <<"b",".","j","p","g">>

TitleOpts == {None, Some(<<" ","T","o","p"," ">>)}

ImgOpts ==
  {[node |-> FALSE, src |-> None, dsrc |-> None],
   [node |-> TRUE, src |-> None, dsrc |-> None],
   [node |-> TRUE, src |-> Some(ImgA), dsrc |-> None],
   [node |-> TRUE, src |-> None, dsrc |-> Some(ImgB)],
   [node |-> TRUE, src |-> Some(ImgA), dsrc |-> Some(ImgB)],
   [node |-> TRUE, src |-> Some(<<>>), dsrc |-> Some(ImgB)],
   [node |-> TRUE, src |-> Some(<<>>), dsrc |-> None]}

LogoOpts ==
  {[node |-> FALSE, alt |-> None],
   [node |-> TRUE, alt |-> None],
   [node |-> TRUE, alt |-> Some(<<"L","o","g","o"," ","L","i","d","l">>)],
   [node |-> TRUE, alt |-> Some(<<"L","i","d","l">>)],
   [node |-> TRUE, alt |-> Some(<<"L","o","g","o"," ","B","i","o"," ",
                                  "L","o","g","o"," ","M","a","r","k","t">>)]}

\* (hidden-sm text, visible-sm text)
SmallOpts ==
  {<<None, None>>,
   <<Some(D1 \o Sep \o D2), None>>,
   <<None, Some(<<" ">> \o Von \o D1)>>,
   <<Some(Words), Some(D2)>>}

AllTiles ==
  {[title |-> t, img |-> i, logo |-> l, hidden |-> s[1], visible |-> s[2]] :
     t \in TitleOpts, i \in ImgOpts, l \in LogoOpts, s \in SmallOpts}

BaseTile ==
  [title |-> Some(<<" ","T","o","p"," ">>),
   img |-> [node |-> TRUE, src |-> Some(ImgA), dsrc |-> None],
   logo |-> [node |-> TRUE, alt |-> Some(<<"L","o","g","o"," ","L","i","d","l">>)],
   hidden |-> Some(D1 \o Sep \o D2),
   visible |-> None]

\* the tiles that differ from BaseTile in at most one of the four fields
StructTiles ==
  {x \in AllTiles :
     Cardinality({f \in {"title", "img", "logo"} : x[f] # BaseTile[f]}
                 \cup {f \in {"small"} : <<x.hidden, x.visible>>
                                         # <<BaseTile.hidden, BaseTile.visible>>})
       <= 1}
  \cup {[title |-> None, img |-> [node |-> FALSE, src |-> None, dsrc |-> None],
         logo |-> [node |-> FALSE, alt |-> None],
         hidden |-> None, visible |-> None]}

RECURSIVE PagesUpTo(_)
\* the pages of at most n tiles, each from StructTiles
PagesUpTo(n) ==
  IF n = 0 THEN {<<>>}
  ELSE LET prev == PagesUpTo(n - 1)
       IN  prev \cup {Append(x, t) : x \in prev, t \in StructTiles}

Pages ==
  PagesUpTo(MaxTiles)
  \cup {<<t>> : t \in AllTiles}
  \cup {<<[BaseTile EXCEPT !.hidden = Some(x)]>> : x \in TextsUpTo(MaxParts)}

Clock == {"2025-03-21 10:00:00", "2025-03-21 10:00:01"}

----------------------------------------------------------------------------
(* The run: fetch_page, parse_page, save_to_json *)

Init ==
  /\ page \in Pages
  /\ pc = "start"
  /\ html = <<>>
  /\ idx = 0
  /\ now = "unset"
  /\ leaflets = <<>>
  /\ run_leaflets = <<>>
  /\ file = [written |-> FALSE, data |-> <<>>]
  /\ err = "none"
  /\ fetches = 0
  /\ saves = 0

\* fetch_page returns response.text
FetchOk ==
  /\ pc = "start"
  /\ fetches' = fetches + 1
  /\ html' = page
  /\ pc' = "fetched"
  /\ UNCHANGED <<page, idx, now, leaflets, run_leaflets, file, err, saves>>

\* session.get raises: run ends with the error
FetchTransportError ==
  /\ pc = "start"
  /\ fetches' = fetches + 1
  /\ err' = "ConnectionError"
  /\ pc' = "failed"
  /\ UNCHANGED <<page, html, idx, now, leaflets, run_leaflets, file, saves>>

\* response.raise_for_status raises: run ends with the error
FetchStatusError ==
  /\ pc = "start"
  /\ fetches' = fetches + 1
  /\ err' = "HTTPError"
  /\ pc' = "failed"
  /\ UNCHANGED <<page, html, idx, now, leaflets, run_leaflets, file, saves>>

\* parse_page up to the head of its loop
ParseBegin ==
  /\ pc = "fetched"
  /\ leaflets' = <<>>
  /\ now' \in Clock
  /\ idx' = 1
  /\ pc' = "parsing"
  /\ UNCHANGED <<page, html, run_leaflets, file, err, fetches, saves>>

\* one pass of the loop body that reaches leaflets.append
ParseTile ==
  /\ pc = "parsing"
  /\ idx <= Len(html)
  /\ ~RaisesKeyError(html[idx])
  /\ leaflets' = Append(leaflets, Entry(html[idx], now))
  /\ idx' = idx + 1
  /\ UNCHANGED <<pc, page, html, now, run_leaflets, file, err, fetches, saves>>

\* one pass of the loop body that raises at shop_tag["alt"]: parse_page and
\* run are left by the exception, the list built so far is dropped
ParseRaise ==
  /\ pc = "parsing"
  /\ idx <= Len(html)
  /\ RaisesKeyError(html[idx])
  /\ leaflets' = <<>>
  /\ err' = "KeyError"
  /\ pc' = "failed"
  /\ UNCHANGED <<page, html, idx, now, run_leaflets, file, fetches, saves>>

\* the loop is over: return leaflets
ParseReturn ==
  /\ pc = "parsing"
  /\ idx > Len(html)
  /\ run_leaflets' = leaflets
  /\ pc' = "parsed"
  /\ UNCHANGED <<page, html, idx, now, leaflets, file, err, fetches, saves>>

\* save_to_json(leaflets)
SaveToJson ==
  /\ pc = "parsed"
  /\ file' = [written |-> TRUE, data |-> run_leaflets]
  /\ saves' = saves + 1
  /\ pc' = "done"
  /\ UNCHANGED <<page, html, idx, now, leaflets, run_leaflets, err, fetches>>

Next ==
  \/ FetchOk
  \/ FetchTransportError
  \/ FetchStatusError
  \/ ParseBegin
  \/ ParseTile
  \/ ParseRaise
  \/ ParseReturn
  \/ SaveToJson

Spec == Init /\ [][Next]_vars

----------------------------------------------------------------------------
(* Properties *)

\* the entries built so far; entry i is built from tile html[i]
Built == 1..Len(leaflets)

\* a DD.MM.YYYY-shaped token (two digits, dot, two digits, dot, four digits)
\* stands in t at position i
ShapedToken(t, i) ==
  /\ i + 9 <= Len(t)
  /\ \A k \in 0..9 :
       IF k \in {2, 5} THEN t[i + k] = "." ELSE t[i + k] \in Digits

TokenPositions(t) == {i \in 1..Len(t) : ShapedToken(t, i)}

\* two shaped tokens separated by " - " stand in t at position i
ShapedRange(t, i) ==
  /\ ShapedToken(t, i)
  /\ ShapedToken(t, i + 13)
  /\ SubSeq(t, i + 10, i + 12) = <<" ", "-", " ">>

RangePositions(t) == {i \in 1..Len(t) : ShapedRange(t, i)}

\* the token names a day of the calendar
RealDate(tok) == Strptime(tok)[1] # -1

IsoShaped(s) ==
  /\ Len(s) = 10
  /\ \A k \in 1..10 : IF k \in {5, 8} THEN s[k] = "-" ELSE s[k] \in Digits

\* C1: range rule. Whenever the validity text of a tile contains two shaped
\* tokens separated by " - " that are both real calendar dates, the entry's
\* (valid_from, valid_to) is such a pair of tokens, each converted to
\* YYYY-MM-DD.
C1_RangeRule ==
  \A i \in Built :
    LET t == DateText(html[i])
        real == {p \in RangePositions(t) :
                   RealDate(Token(t, p)) /\ RealDate(Token(t, p + 13))}
    IN  real # {} =>
          \E p \in real :
            /\ leaflets[i].valid_from = FormatDate(Token(t, p))
            /\ leaflets[i].valid_to = FormatDate(Token(t, p + 13))

\* C2: single-date rule. Whenever the range rule does not match the validity
\* text and the text contains one shaped token, a real calendar date, then
\* valid_from is that token converted to YYYY-MM-DD and valid_to is "Unknown".
C2_SingleRule ==
  \A i \in Built :
    LET t == DateText(html[i])
    IN  (RangePositions(t) = {} /\ Cardinality(TokenPositions(t)) = 1) =>
          LET tok == Token(t, CHOOSE p \in TokenPositions(t) : TRUE)
          IN  RealDate(tok) =>
                /\ leaflets[i].valid_from = FormatDate(tok)
                /\ leaflets[i].valid_to = Unknown

\* C3: invalid calendar dates are rejected per side. Whenever a token matched
\* by the range rule or by the single-date rule is no real calendar date, that
\* side is "Unknown" and the other side of a range is still converted.
C3_InvalidRejected ==
  \A i \in Built :
    LET t == DateText(html[i])
        rs == RangePositions(t)
        ts == TokenPositions(t)
        r == CHOOSE p \in rs : \A q \in rs : p <= q
        s == CHOOSE p \in ts : \A q \in ts : p <= q
    IN  IF rs # {}
        THEN (~RealDate(Token(t, r)) \/ ~RealDate(Token(t, r + 13))) =>
               /\ leaflets[i].valid_from = FormatDate(Token(t, r))
               /\ leaflets[i].valid_to = FormatDate(Token(t, r + 13))
        ELSE (ts # {} /\ ~RealDate(Token(t, s))) =>
               /\ leaflets[i].valid_from = Unknown
               /\ leaflets[i].valid_to = Unknown

\* C4: in every entry, valid_from and valid_to are each a string of the form
\* YYYY-MM-DD or the literal "Unknown".
C4_IsoOrUnknown ==
  \A i \in Built :
    /\ IsoShaped(leaflets[i].valid_from) \/ leaflets[i].valid_from = Unknown
    /\ IsoShaped(leaflets[i].valid_to) \/ leaflets[i].valid_to = Unknown

\* C5: extraction is total over tiles. parse_page raises nothing, whatever
\* nodes and attributes of a tile are present or absent; once it is past a
\* tile there is one entry for it, and a tile with no resolvable field yields
\* the defaults.
C5_TotalOverFragments ==
  /\ err # "KeyError"
  /\ pc \in {"parsing", "parsed", "done"} => Len(leaflets) = idx - 1
  /\ \A i \in Built :
       (/\ ~html[i].title.has
        /\ ~html[i].img.node
        /\ ~html[i].logo.node
        /\ ~html[i].hidden.has
        /\ ~html[i].visible.has) =>
         /\ leaflets[i].title = Unknown
         /\ leaflets[i].thumbnail = <<>>
         /\ leaflets[i].shop_name = Unknown
         /\ leaflets[i].valid_from = Unknown
         /\ leaflets[i].valid_to = Unknown

\* parse_page is over: it has returned, or it was left by an exception
ParseOver == pc \in {"parsed", "done"} \/ (pc = "failed" /\ err = "KeyError")

\* C6: order preservation. For every document, parse_page returns a sequence
\* with one entry per tile, the i-th entry built from the i-th tile.
C6_OrderPreserved ==
  ParseOver =>
    /\ pc \in {"parsed", "done"}
    /\ Len(run_leaflets) = Len(html)
    /\ \A i \in 1..Len(run_leaflets) : run_leaflets[i] = Entry(html[i], now)

\* C7 as stated: thumbnail is src whenever src is present, also when src is
\* the empty string; data-src only when src is absent and data-src present;
\* "" when there is no image node or neither attribute.
C7_ThumbnailChainAsStated ==
  \A i \in Built :
    LET im == html[i].img
    IN  leaflets[i].thumbnail =
          IF im.node /\ im.src.has THEN im.src.val
          ELSE IF im.node /\ im.dsrc.has THEN im.dsrc.val
          ELSE <<>>

\* C7 (amended): thumbnail is src whenever src is present and not empty; it
\* is data-src when src is absent or empty and data-src is present; it is ""
\* when there is no image node, or neither a non-empty src nor a data-src.
C7_ThumbnailChain ==
  \A i \in Built :
    LET im == html[i].img
    IN  leaflets[i].thumbnail =
          IF im.node /\ im.src.has /\ Len(im.src.val) > 0 THEN im.src.val
          ELSE IF im.node /\ im.dsrc.has THEN im.dsrc.val
          ELSE <<>>

\* an entry was built from a tile whose image has an empty src and a data-src
C7_Witness ==
  \E i \in Built :
    /\ html[i].img.node
    /\ html[i].img.src.has
    /\ html[i].img.src.val = <<>>
    /\ html[i].img.dsrc.has
    /\ leaflets[i].thumbnail = html[i].img.dsrc.val
    /\ leaflets[i].thumbnail # <<>>

\* alt with "Logo " removed if alt starts with it
WithoutLogoPrefix(alt) ==
  IF Len(alt) >= 5 /\ SubSeq(alt, 1, 5) = LogoPrefix
  THEN SubSeq(alt, 6, Len(alt))
  ELSE alt

\* C8: shop-name resolution. With a logo image node, shop_name is the alt text
\* with "Logo " removed only as a prefix; with none, shop_name is "Unknown".
C8_ShopName ==
  \A i \in Built :
    leaflets[i].shop_name =
      IF html[i].logo.node THEN WithoutLogoPrefix(html[i].logo.alt.val)
      ELSE Unknown

\* C9: no-match rule. Whenever the validity text of a tile contains no shaped
\* token at all (the empty text of a tile without small-text node included),
\* valid_from and valid_to are both "Unknown".
C9_NoMatch ==
  \A i \in Built :
    TokenPositions(DateText(html[i])) = {} =>
      /\ leaflets[i].valid_from = Unknown
      /\ leaflets[i].valid_to = Unknown

\* an entry was built from a tile whose validity text is not empty, holds
\* digits, and holds no shaped token
C9_Witness ==
  \E i \in Built :
    LET t == DateText(html[i])
    IN  /\ \E k \in 1..Len(t) : t[k] \in Digits
        /\ TokenPositions(t) = {}
        /\ leaflets[i].valid_from = Unknown
        /\ leaflets[i].valid_to = Unknown

FetchFailed == err \in {"ConnectionError", "HTTPError"}

\* C10: run pipeline. The fetch is attempted once; a failed fetch ends the run
\* with neither extraction nor persistence; persistence happens after
\* extraction, with the full entry sequence; and a run whose fetch succeeded
\* ends with the sequence handed to the sink exactly once.
C10_RunPipeline ==
  /\ fetches = (IF pc = "start" THEN 0 ELSE 1)
  /\ FetchFailed => (pc = "failed" /\ idx = 0 /\ saves = 0 /\ ~file.written)
  /\ saves > 0 =>
       /\ pc = "done"
       /\ saves = 1
       /\ file.written
       /\ file.data = run_leaflets
       /\ Len(file.data) = Len(html)
  /\ (pc \in {"done", "failed"} /\ ~FetchFailed) => saves = 1

====
